---- MODULE Spec2Model ----
(***************************************************************************)
(* Distance-vector routing (src/src/dvr.py) and link-state routing         *)
(* (src/src/lsr.py), run side by side on the same topology records, the    *)
(* same messages and the same topology changes.                            *)
(*                                                                         *)
(* Node ids are 1..NumNodes.  dvr.py keeps ids as strings and lsr.py as    *)
(* integers; on one-character ids the two orders coincide, and that is the *)
(* range modelled here.  A Python dict is modelled as the sequence of its  *)
(* <<key, value>> items in insertion order wherever the code iterates it   *)
(* and the order can matter (the topology), and as a TLA+ function where   *)
(* only the mapping matters (the routing tables).                          *)
(***************************************************************************)
EXTENDS Integers, Sequences, FiniteSets, TLC

\* ---------------------------------------------------------------- bounds
NumNodes == 3
MaxCost == 3
TopoLen == 3
MaxChase == 4
MaxSweeps == 6

\* ------------------------------------------------------ program constants
Removal == -999
Infinity == 1000000

Nodes == 1..NumNodes
Costs == 0..MaxCost
\* A link record or a change joins two distinct node ids.
LinkPairs == {p \in Nodes \X Nodes : p[1] # p[2]}
Records == {<<p[1], p[2], c>> : p \in LinkPairs, c \in Costs}
TopologyFiles == UNION {[1..n -> Records] : n \in 0..TopoLen}
ChangeRecords == {<<p[1], p[2], c>> : p \in LinkPairs, c \in Costs \cup {Removal}}

\* ------------------------------------------------- Python dict, in order
KeySet(d) == {d[i][1] : i \in 1..Len(d)}
Has(d, k) == k \in KeySet(d)
Get(d, k) == d[CHOOSE i \in 1..Len(d) : d[i][1] = k][2]
\* d[k] = v: an existing key keeps its place, a new key goes last.
Put(d, k, v) ==
  IF Has(d, k)
  THEN [i \in 1..Len(d) |-> IF d[i][1] = k THEN <<k, v>> ELSE d[i]]
  ELSE Append(d, <<k, v>>)
\* d.pop(k, None)
Pop(d, k) == SelectSeq(d, LAMBDA e : e[1] # k)
\* d.setdefault(k, {})
SetDefault(d, k) == IF Has(d, k) THEN d ELSE Append(d, <<k, <<>>>>)

\* ------------------------------------------------------------- topology
\* topology.setdefault(node1, {})[node2] = cost, and the reverse direction.
SetLink(topo, node1, node2, cost) ==
  LET t1 == SetDefault(topo, node1)
      t2 == Put(t1, node1, Put(Get(t1, node1), node2, cost))
      t3 == SetDefault(t2, node2)
  IN Put(t3, node2, Put(Get(t3, node2), node1, cost))

RECURSIVE ReadFrom(_, _, _)
ReadFrom(topo, file, i) ==
  IF i > Len(file) THEN topo
  ELSE ReadFrom(SetLink(topo, file[i][1], file[i][2], file[i][3]), file, i + 1)

read_topology(file) == ReadFrom(<<>>, file, 1)

\* {node: {node: (0, node)} for node in self.topology}
InitialTables(topo) == [n \in KeySet(topo) |-> [d \in {n} |-> <<0, n>>]]

\* ------------------------------------------------ distance-vector engine
\* A relaxation that only learns new destinations and never improves a known
\* one: update_routing_table without the cost comparisons of lines 133-135.
ReplacesOnlyAbsent(rt, node, neighbor, link_cost, dest) ==
  dest \notin DOMAIN rt[node]

\* A relaxation that takes every offer whose cost differs from the known
\* one, dearer offers included: line 133 with != in place of <.
ReplacesAnyOther(rt, node, neighbor, link_cost, dest) ==
  \/ dest \notin DOMAIN rt[node]
  \/ link_cost + rt[neighbor][dest][1] # rt[node][dest][1]

\* The body of the inner loops of update_routing_table for one neighbour:
\* every destination the neighbour knows is offered to node.  next_hop is
\* the second component of the NEIGHBOUR's entry, as unpacked by the for.
Replaces(rt, node, neighbor, link_cost, dest) ==
  LET neighbor_total_cost == rt[neighbor][dest][1]
      next_hop == rt[neighbor][dest][2]
      new_cost == link_cost + neighbor_total_cost
  IN \/ dest \notin DOMAIN rt[node]
     \/ new_cost < rt[node][dest][1]
     \/ /\ dest \in DOMAIN rt[node]
        /\ new_cost = rt[node][dest][1]
        /\ neighbor < next_hop

\* A relaxation that stores the next hop of the neighbour's entry, the
\* next_hop unpacked at line 127, where lines 131 and 136 store the neighbour.
RelaxNeighborStoresItsHop(rt, node, neighbor, link_cost) ==
  [rt EXCEPT ![node] =
     [dest \in DOMAIN rt[node] \cup DOMAIN rt[neighbor] |->
        IF dest \in DOMAIN rt[neighbor]
           /\ Replaces(rt, node, neighbor, link_cost, dest)
        THEN <<link_cost + rt[neighbor][dest][1], rt[neighbor][dest][2]>>
        ELSE rt[node][dest]]]

RelaxNeighbor(rt, node, neighbor, link_cost) ==
  [rt EXCEPT ![node] =
     [dest \in DOMAIN rt[node] \cup DOMAIN rt[neighbor] |->
        IF dest \in DOMAIN rt[neighbor]
           /\ Replaces(rt, node, neighbor, link_cost, dest)
        THEN <<link_cost + rt[neighbor][dest][1], neighbor>>
        ELSE rt[node][dest]]]

RECURSIVE UpdateFrom(_, _, _, _, _)
UpdateFrom(rt, node, neighbors, i, updated) ==
  IF i > Len(neighbors) THEN [tables |-> rt, updated |-> updated]
  ELSE LET neighbor == neighbors[i][1]
           link_cost == neighbors[i][2]
       IN UpdateFrom(RelaxNeighbor(rt, node, neighbor, link_cost), node,
                     neighbors, i + 1,
                     updated \/ \E dest \in DOMAIN rt[neighbor] :
                                   Replaces(rt, node, neighbor, link_cost, dest))

update_routing_table(rt, node, neighbors) ==
  UpdateFrom(rt, node, neighbors, 1, FALSE)

\* The for loop of dvr_convergence: the nodes in topology order, each one
\* updating self.routing_tables in place.
RECURSIVE SweepFrom(_, _, _, _)
SweepFrom(rt, topo, i, chg) ==
  IF i > Len(topo) THEN [tables |-> rt, changed |-> chg]
  ELSE LET r == update_routing_table(rt, topo[i][1], topo[i][2])
       IN SweepFrom(r.tables, topo, i + 1, chg \/ r.updated)

\* A sweep that trusts the updated flags alone, without the comparison with
\* the snapshot of line 113.
SweepNoSnapshot(rt, topo) ==
  LET r == SweepFrom(rt, topo, 1, FALSE)
  IN [tables |-> r.tables, changed |-> r.changed]

\* One iteration of the while loop of dvr_convergence.
Sweep(rt, topo) ==
  LET r == SweepFrom(rt, topo, 1, FALSE)
  IN [tables |-> r.tables,
      changed |-> IF rt = r.tables THEN FALSE ELSE r.changed]

\* dvr_convergence as a whole: the sweeps are repeated on the tables rt until
\* one leaves changed false.
RECURSIVE dvr_convergence(_, _)
dvr_convergence(rt, topo) ==
  LET r == Sweep(rt, topo)
  IN IF r.changed THEN dvr_convergence(r.tables, topo) ELSE r.tables

\* ----------------------------------------------------- link-state engine
\* Network.add_link: both nodes are created when unseen, then both links set.
add_link(net, node1_id, node2_id, cost) ==
  LET n1 == SetDefault(net, node1_id)
      n2 == SetDefault(n1, node2_id)
      n3 == Put(n2, node1_id, Put(Get(n2, node1_id), node2_id, cost))
  IN Put(n3, node2_id, Put(Get(n3, node2_id), node1_id, cost))

RECURSIVE LsrReadFrom(_, _, _)
LsrReadFrom(net, file, i) ==
  IF i > Len(file) THEN net
  ELSE LsrReadFrom(add_link(net, file[i][1], file[i][2], file[i][3]), file, i + 1)

lsr_read_topology(file) == LsrReadFrom(<<>>, file, 1)

\* Python's order on lists of ids, as used when two heap tuples agree on
\* (distance, node id).
RECURSIVE ListLess(_, _)
ListLess(p, q) ==
  IF q = <<>> THEN FALSE
  ELSE IF p = <<>> THEN TRUE
  ELSE IF p[1] # q[1] THEN p[1] < q[1]
  ELSE ListLess(Tail(p), Tail(q))

\* Python's order on the heap tuples (distance, node id, path).
TupleLess(e, f) ==
  \/ e[1] < f[1]
  \/ e[1] = f[1] /\ e[2] < f[2]
  \/ e[1] = f[1] /\ e[2] = f[2] /\ ListLess(e[3], f[3])

\* heapq.heappop: the least tuple of the queue.
HeapMin(pq) == CHOOSE e \in pq : \A f \in pq \ {e} : TupleLess(e, f)

\* A relaxation that keeps the first distance found for a node.
ImprovesUnseen(distance, distances, neighbor) == distances[neighbor] = Infinity

\* Line 88 of dijkstra: the tentative distance is strictly better.
Improves(distance, distances, neighbor) == distance < distances[neighbor]

\* The for loop of dijkstra over the links of the popped node.
RECURSIVE RelaxLinks(_, _, _, _, _, _)
RelaxLinks(st, links, i, current_distance, current_node, current_path) ==
  IF i > Len(links) THEN st
  ELSE LET neighbor == links[i][1]
           weight == links[i][2]
           distance == current_distance + weight
           new_path == Append(current_path, neighbor)
       IN IF Improves(distance, st.distances, neighbor)
          THEN RelaxLinks(
                 [distances |-> [st.distances EXCEPT ![neighbor] = distance],
                  previous_nodes |->
                    [st.previous_nodes EXCEPT ![neighbor] = current_node],
                  full_paths |-> [st.full_paths EXCEPT ![neighbor] = new_path],
                  pq |-> st.pq \cup {<<distance, neighbor, new_path>>}],
                 links, i + 1, current_distance, current_node, current_path)
          ELSE RelaxLinks(st, links, i + 1, current_distance, current_node, current_path)

\* Line 83 of dijkstra: the popped tuple is dearer than the distance
\* recorded for its node.
Stale(st, top) == top[1] > st.distances[top[2]]

\* One iteration of the while loop of dijkstra, lines 82-93, on a queue
\* that is not empty: a stale tuple is dropped by the continue of line 84.
DijkstraIteration(net, st) ==
  LET top == HeapMin(st.pq)
      popped == [st EXCEPT !.pq = st.pq \ {top}]
  IN IF Stale(st, top)
     THEN popped
     ELSE RelaxLinks(popped, Get(net, top[2]), 1, top[1], top[2], top[3])

\* The while loop of dijkstra.
RECURSIVE DijkstraLoop(_, _)
DijkstraLoop(net, st) ==
  IF st.pq = {} THEN st
  ELSE DijkstraLoop(net, DijkstraIteration(net, st))

\* Lines 74-80 of dijkstra.  previous_nodes holds 0 where the code holds
\* None.
DijkstraStart(net, start_id) ==
  [distances |-> [n \in KeySet(net) |-> IF n = start_id THEN 0 ELSE Infinity],
   previous_nodes |-> [n \in KeySet(net) |-> 0],
   full_paths |-> [n \in KeySet(net) |-> IF n = start_id THEN <<start_id>> ELSE <<>>],
   pq |-> {<<0, start_id, <<start_id>>>>}]

dijkstra(net, start_id) == DijkstraLoop(net, DijkstraStart(net, start_id))

\* An entry that keeps the whole path, destination included.
WholePath(path) == path

\* path[:-1]
ButLast(path) == SubSeq(path, 1, Len(path) - 1)

\* An entry is (next_hop, cost, path without the destination).
build_routing_tables(net) ==
  [node_id \in KeySet(net) |->
     LET r == dijkstra(net, node_id)
     IN [dest_id \in {d \in KeySet(net) : r.full_paths[d] # <<>>} |->
           LET path == r.full_paths[dest_id]
           IN <<IF Len(path) > 1 THEN path[2] ELSE node_id,
                r.distances[dest_id],
                ButLast(path)>>]]

\* ------------------------------------------------------ topology changes
\* run_simulation, lines 199-205.  Indexing self.topology with a node that
\* is not a key raises KeyError.
DvrChangeRaises(topo, node1, node2) == ~Has(topo, node1) \/ ~Has(topo, node2)

\* A change applied to the links of node1 only.
DvrApplyChangeOneWay(topo, node1, node2, new_cost) ==
  IF new_cost = Removal
  THEN Put(topo, node1, Pop(Get(topo, node1), node2))
  ELSE Put(topo, node1, Put(Get(topo, node1), node2, new_cost))

\* A change that drops the link before it sets it, so that a link that is
\* set again moves to the end of the links of both nodes.
DvrApplyChangeReinsert(topo, node1, node2, new_cost) ==
  LET t1 == Put(topo, node1, Pop(Get(topo, node1), node2))
      t2 == Put(t1, node2, Pop(Get(t1, node2), node1))
  IN IF new_cost = Removal THEN t2
     ELSE LET t3 == Put(t2, node1, Put(Get(t2, node1), node2, new_cost))
          IN Put(t3, node2, Put(Get(t3, node2), node1, new_cost))

DvrApplyChange(topo, node1, node2, new_cost) ==
  IF new_cost = Removal
  THEN LET t1 == Put(topo, node1, Pop(Get(topo, node1), node2))
       IN Put(t1, node2, Pop(Get(t1, node2), node1))
  ELSE LET t1 == Put(topo, node1, Put(Get(topo, node1), node2, new_cost))
       IN Put(t1, node2, Put(Get(t1, node2), node1, new_cost))

\* main of lsr.py, lines 222-227.  del raises KeyError on a missing key.
LsrChangeRaises(net, node1_id, node2_id, cost) ==
  /\ cost = Removal
  /\ Has(net, node1_id)
  /\ Has(Get(net, node1_id), node2_id)
  /\ ~(Has(net, node2_id) /\ Has(Get(net, node2_id), node1_id))

\* A removal that deletes the link in one direction only.
LsrApplyChangeOneWay(net, node1_id, node2_id, cost) ==
  IF cost = Removal
  THEN IF Has(net, node1_id) /\ Has(Get(net, node1_id), node2_id)
       THEN Put(net, node1_id, Pop(Get(net, node1_id), node2_id))
       ELSE net
  ELSE add_link(net, node1_id, node2_id, cost)

LsrApplyChange(net, node1_id, node2_id, cost) ==
  IF cost = Removal
  THEN IF Has(net, node1_id) /\ Has(Get(net, node1_id), node2_id)
       THEN LET n1 == Put(net, node1_id, Pop(Get(net, node1_id), node2_id))
            IN Put(n1, node2_id, Pop(Get(n1, node2_id), node1_id))
       ELSE net
  ELSE add_link(net, node1_id, node2_id, cost)

\* ------------------------------------------------------------ forwarding
\* One output line: "cost <cost|infinite> hops <hops|unreachable>".
NoLine == [written |-> FALSE, infinite |-> FALSE, cost |-> 0,
           unreachable |-> FALSE, hops |-> <<>>]
RouteLine(cost, hops) == [written |-> TRUE, infinite |-> FALSE, cost |-> cost,
                          unreachable |-> FALSE, hops |-> hops]
\* dvr.py line 157: a path of one node is printed as "unreachable".
DvrRouteLine(path_cost, path) ==
  [written |-> TRUE, infinite |-> FALSE, cost |-> path_cost,
   unreachable |-> ~(Len(path) > 1), hops |-> IF Len(path) > 1 THEN path ELSE <<>>]
UnreachableLine == [written |-> TRUE, infinite |-> TRUE, cost |-> 0,
                    unreachable |-> TRUE, hops |-> <<>>]

\* forward_messages, lines 151-156.
lsr_forward(tables, source_id, dest_id) ==
  IF source_id \in DOMAIN tables /\ dest_id \in DOMAIN tables[source_id]
  THEN RouteLine(tables[source_id][dest_id][2], tables[source_id][dest_id][3])
  ELSE UnreachableLine

VARIABLES topology, routing_tables, previous_routing_tables, changed, dvrPc,
          sweeps, path, next_hop, dvrOut,
          network, lsr_tables, lsrPc, lsrOut,
          msg, lastChange

vars == <<topology, routing_tables, previous_routing_tables, changed, dvrPc,
          sweeps, path, next_hop, dvrOut, network, lsr_tables, lsrPc, lsrOut, msg,
          lastChange>>

dvrVars == <<topology, routing_tables, previous_routing_tables, changed, dvrPc,
             sweeps, path, next_hop, dvrOut>>
lsrVars == <<network, lsr_tables, lsrPc, lsrOut>>

\* The state after NetworkSimulator.__init__ and after read_topology of
\* lsr.py, both on the same topology file.
Init ==
  \E file \in TopologyFiles :
     /\ topology = read_topology(file)
     /\ routing_tables = InitialTables(read_topology(file))
     /\ previous_routing_tables = InitialTables(read_topology(file))
     /\ changed = TRUE
     /\ dvrPc = "converge"
     /\ sweeps = 0
     /\ path = <<>>
     /\ next_hop = 0
     /\ dvrOut = NoLine
     /\ network = lsr_read_topology(file)
     /\ lsr_tables = <<>>
     /\ lsrPc = "build"
     /\ lsrOut = NoLine
     /\ msg = <<>>
     /\ lastChange = <<>>

\* An uncaught KeyError ends the process: nothing of its state is left.
DvrDies ==
  /\ dvrPc' = "KeyError"
  /\ topology' = <<>>
  /\ routing_tables' = <<>>
  /\ previous_routing_tables' = <<>>
  /\ changed' = FALSE
  /\ sweeps' = 0
  /\ path' = <<>>
  /\ next_hop' = 0
  /\ dvrOut' = NoLine

\* One iteration of the while loop of dvr_convergence, lines 104-114.
\* sweeps counts the iterations of the running call.
DvrSweep ==
  /\ dvrPc = "converge"
  /\ changed
  /\ sweeps < MaxSweeps
  /\ sweeps' = sweeps + 1
  /\ LET r == Sweep(routing_tables, topology)
     IN /\ previous_routing_tables' = routing_tables
        /\ routing_tables' = r.tables
        /\ changed' = r.changed
  /\ UNCHANGED <<topology, dvrPc, path, next_hop, dvrOut, msg, lastChange>>
  /\ UNCHANGED lsrVars

\* The while loop of dvr_convergence ends.
DvrConverged ==
  /\ dvrPc = "converge"
  /\ ~changed
  /\ dvrPc' = "forward"
  /\ UNCHANGED <<topology, routing_tables, previous_routing_tables, changed,
                 sweeps, path, next_hop, dvrOut, msg, lastChange>>
  /\ UNCHANGED lsrVars

\* main of lsr.py, line 210: the initial tables.
LsrBuild ==
  /\ lsrPc = "build"
  /\ lsr_tables' = build_routing_tables(network)
  /\ lsrPc' = "forward"
  /\ UNCHANGED <<network, lsrOut, msg, lastChange>>
  /\ UNCHANGED dvrVars

\* simulate_messages, line 149: self.routing_tables[source] raises KeyError
\* for a source that is no key; otherwise the destination is looked up.
DvrLookup(rt, s, d) ==
  IF s \notin DOMAIN rt THEN "KeyError"
  ELSE IF d \in DOMAIN rt[s] THEN "chase"
  ELSE "unreachable"

\* simulate_messages, lines 148-152 and 159-160, for the message (s, d).
DvrStartMessage(s, d) ==
  IF DvrLookup(routing_tables, s, d) = "KeyError"
  THEN DvrDies
  ELSE IF DvrLookup(routing_tables, s, d) = "chase"
  THEN /\ path' = <<s>>
       /\ next_hop' = routing_tables[s][d][2]
       /\ dvrPc' = "chase"
       /\ dvrOut' = NoLine
       /\ UNCHANGED <<topology, routing_tables, previous_routing_tables, changed, sweeps>>
  ELSE /\ dvrOut' = UnreachableLine
       /\ path' = <<>>
       /\ next_hop' = 0
       /\ UNCHANGED <<topology, routing_tables, previous_routing_tables, changed,
                      sweeps, dvrPc>>

\* Both programs read the next line (s, d) of the messages file.
NextMessage(s, d) ==
  /\ lsrPc = "forward"
  /\ dvrPc \in {"forward", "KeyError"}
  /\ msg' = <<s, d>>
  /\ lsrOut' = lsr_forward(lsr_tables, s, d)
  /\ lastChange' = <<>>
  /\ UNCHANGED <<network, lsr_tables, lsrPc>>
  /\ IF dvrPc = "forward" THEN DvrStartMessage(s, d) ELSE UNCHANGED dvrVars

\* One iteration of the while loop of simulate_messages, lines 153-155.
DvrChaseStep ==
  /\ dvrPc = "chase"
  /\ next_hop # msg[2]
  /\ Len(path) < MaxChase
  /\ IF next_hop \in DOMAIN routing_tables
        /\ msg[2] \in DOMAIN routing_tables[next_hop]
     THEN /\ path' = Append(path, next_hop)
          /\ next_hop' = routing_tables[next_hop][msg[2]][2]
          /\ UNCHANGED <<topology, routing_tables, previous_routing_tables,
                         changed, sweeps, dvrPc, dvrOut>>
     ELSE DvrDies
  /\ UNCHANGED <<msg, lastChange>>
  /\ UNCHANGED lsrVars

\* The while loop ends and the line is written, lines 157-158.
DvrChaseEnd ==
  /\ dvrPc = "chase"
  /\ next_hop = msg[2]
  /\ dvrOut' = DvrRouteLine(routing_tables[msg[1]][msg[2]][1], path)
  /\ dvrPc' = "forward"
  /\ UNCHANGED <<topology, routing_tables, previous_routing_tables, changed,
                 sweeps, path, next_hop, msg, lastChange>>
  /\ UNCHANGED lsrVars

\* The messages file is exhausted in both programs: simulate_messages and
\* forward_messages return, and each program turns to the changes file.
EndMessages ==
  /\ lsrPc = "forward"
  /\ dvrPc \in {"forward", "KeyError"}
  /\ msg' = <<>>
  /\ lastChange' = <<>>
  /\ lsrOut' = NoLine
  /\ lsrPc' = "change"
  /\ UNCHANGED <<network, lsr_tables>>
  /\ IF dvrPc = "forward"
     THEN /\ dvrPc' = "change"
          /\ dvrOut' = NoLine
          /\ path' = <<>>
          /\ next_hop' = 0
          /\ UNCHANGED <<topology, routing_tables, previous_routing_tables, changed, sweeps>>
     ELSE UNCHANGED dvrVars

\* run_simulation, lines 198-208 up to the entry of dvr_convergence.
DvrChange(node1, node2, new_cost) ==
  IF DvrChangeRaises(topology, node1, node2)
  THEN DvrDies
  ELSE /\ topology' = DvrApplyChange(topology, node1, node2, new_cost)
       /\ routing_tables' = InitialTables(topology')
       /\ previous_routing_tables' = InitialTables(topology')
       /\ changed' = TRUE
       /\ sweeps' = 0
       /\ dvrPc' = "converge"
       /\ UNCHANGED <<path, next_hop, dvrOut>>

\* main of lsr.py, lines 220-229.
LsrChange(node1_id, node2_id, cost) ==
  IF LsrChangeRaises(network, node1_id, node2_id, cost)
  THEN /\ lsrPc' = "KeyError"
       /\ network' = <<>>
       /\ lsr_tables' = <<>>
       /\ lsrOut' = NoLine
  ELSE /\ network' = LsrApplyChange(network, node1_id, node2_id, cost)
       /\ lsr_tables' = build_routing_tables(network')
       /\ lsrPc' = "forward"
       /\ UNCHANGED lsrOut

\* Whether the link a-b is there before a change.
HasLink(net, a, b) == Has(net, a) /\ Has(Get(net, a), b)

\* Both programs read the next line of the changes file, after all messages.
ChangeStep(r) ==
  /\ lsrPc = "change"
  /\ dvrPc \in {"change", "KeyError"}
  /\ LsrChange(r[1], r[2], r[3])
  /\ IF dvrPc = "change" THEN DvrChange(r[1], r[2], r[3]) ELSE UNCHANGED dvrVars
  /\ UNCHANGED msg

\* lastChange records the line, and whether the link was there before it, until
\* the first message replayed after the change is read.
Change(r) ==
  /\ ChangeStep(r)
  /\ lastChange' = <<r[1], r[2], r[3], HasLink(network, r[1], r[2])>>

Next ==
  \/ DvrSweep
  \/ DvrConverged
  \/ LsrBuild
  \/ \E s \in Nodes, d \in Nodes : NextMessage(s, d)
  \/ DvrChaseStep
  \/ DvrChaseEnd
  \/ EndMessages
  \/ \E r \in ChangeRecords : Change(r)

Spec == Init /\ [][Next]_vars

\* ------------------------------------------------------------ vocabulary
\* The distance-vector tables are converged; the link-state tables are built.
DvrDone == dvrPc \in {"forward", "chase", "change"}
LsrDone == lsrPc \in {"forward", "change"}

LinkCost(topo, a, b) == Get(Get(topo, a), b)
Neighbours(topo, a) == KeySet(Get(topo, a))

\* The sequences of distinct node ids, and among them the paths of a topology.
SimpleSeqs ==
  {p \in UNION {[1..n -> Nodes] : n \in 1..NumNodes} :
     \A i \in 1..Len(p), j \in 1..Len(p) : i # j => p[i] # p[j]}
IsPath(topo, p) ==
  /\ \A i \in 1..Len(p) : Has(topo, p[i])
  /\ \A i \in 1..(Len(p) - 1) : HasLink(topo, p[i], p[i + 1])
RECURSIVE PathCost(_, _)
PathCost(topo, p) ==
  IF Len(p) < 2 THEN 0
  ELSE LinkCost(topo, p[1], p[2]) + PathCost(topo, Tail(p))
Ends(p, s, d) == p[1] = s /\ p[Len(p)] = d

\* Each program is about to replay the messages on freshly computed tables.
\* The tables stay as they are from there to the next change, so a property
\* of the tables is stated at this point.  (The link-state tables of a
\* change exist while the distance-vector sweeps still run; they are looked
\* at once the sweeps are over.)
DvrComputed == dvrPc = "forward" /\ msg = <<>>
LsrComputed == lsrPc = "forward" /\ msg = <<>> /\ dvrPc # "converge"

\* --------------------------------------------------------------- claims
\* C1: whenever both engines have computed their tables for the same
\* topology, they hold the same cost for every pair (s, d) with d reachable
\* from s.
C1_CostsAgree ==
  (DvrComputed /\ LsrComputed) =>
    /\ topology = network
    /\ \A p \in SimpleSeqs :
         IsPath(topology, p) =>
           LET s == p[1]
               d == p[Len(p)]
           IN /\ d \in DOMAIN routing_tables[s]
              /\ d \in DOMAIN lsr_tables[s]
              /\ routing_tables[s][d][1] = lsr_tables[s][d][2]

\* C1 witness: after a change both engines hold a route of positive cost
\* through an intermediate node, and they differ in the next hop.
C1_Witness ==
  /\ DvrComputed /\ LsrComputed /\ lastChange # <<>>
  /\ \E s \in KeySet(topology), d \in KeySet(topology) :
       /\ d \in DOMAIN routing_tables[s]
       /\ routing_tables[s][d][1] > 0
       /\ routing_tables[s][d][2] \notin {s, d}
       /\ lsr_tables[s][d][1] # routing_tables[s][d][2]

\* C2: after every computation each engine's cost for (s, d) is the least
\* total link cost over all paths from s to d, and an entry for d exists in
\* the table of s exactly when d is connected to s.
C2_ShortestCosts ==
  /\ DvrComputed =>
       /\ \A p \in SimpleSeqs :
            IsPath(topology, p) =>
              /\ p[Len(p)] \in DOMAIN routing_tables[p[1]]
              /\ routing_tables[p[1]][p[Len(p)]][1] <= PathCost(topology, p)
       /\ \A s \in KeySet(topology) : \A d \in DOMAIN routing_tables[s] :
            \E p \in SimpleSeqs :
              /\ Ends(p, s, d) /\ IsPath(topology, p)
              /\ routing_tables[s][d][1] = PathCost(topology, p)
  /\ LsrComputed =>
       /\ \A p \in SimpleSeqs :
            IsPath(network, p) =>
              /\ p[Len(p)] \in DOMAIN lsr_tables[p[1]]
              /\ lsr_tables[p[1]][p[Len(p)]][2] <= PathCost(network, p)
       /\ \A s \in KeySet(network) : \A d \in DOMAIN lsr_tables[s] :
            \E p \in SimpleSeqs :
              /\ Ends(p, s, d) /\ IsPath(network, p)
              /\ lsr_tables[s][d][2] = PathCost(network, p)

\* C2 witness: the links 2-3 of cost 1 and 1-3 of cost 3 after the link 1-2
\* was removed: node 1 reaches 3 directly at cost 3 and 2 through 3.
C2_Witness ==
  /\ DvrComputed /\ LsrComputed
  /\ lastChange = <<1, 2, Removal, TRUE>>
  /\ HasLink(topology, 2, 3) /\ LinkCost(topology, 2, 3) = 1
  /\ HasLink(topology, 1, 3) /\ LinkCost(topology, 1, 3) = 3
  /\ routing_tables[1][3] = <<3, 3>>
  /\ routing_tables[1][2] = <<4, 3>>
  /\ lsr_tables[1][3][2] = 3
  /\ lsr_tables[1][2][2] = 4

\* C3: in every table of either engine the entry of node n for n itself has
\* cost 0 and next hop n.
C3_SelfRoute ==
  /\ DvrComputed =>
       \A n \in KeySet(topology) :
         n \in DOMAIN routing_tables[n] /\ routing_tables[n][n] = <<0, n>>
  /\ LsrComputed =>
       \A n \in KeySet(network) :
         /\ n \in DOMAIN lsr_tables[n]
         /\ lsr_tables[n][n][1] = n
         /\ lsr_tables[n][n][2] = 0

\* The neighbours of n that offer destination d at the cost n holds for it.
Offering(n, d) ==
  {m \in Neighbours(topology, n) :
     /\ d \in DOMAIN routing_tables[m]
     /\ LinkCost(topology, n, m) + routing_tables[m][d][1] = routing_tables[n][d][1]}

PositiveCosts(topo) ==
  \A a \in KeySet(topo) : \A b \in Neighbours(topo, a) : LinkCost(topo, a, b) > 0

\* C4: in the converged distance-vector table, when two or more neighbours
\* of n offer the same least cost to d, the next hop of n for d is the
\* smallest of them.  Stated for topologies of positive costs, where every
\* offering neighbour lies on a shortest path to d.
C4_SmallestNextHop ==
  (DvrComputed /\ PositiveCosts(topology)) =>
    \A n \in KeySet(topology) : \A d \in DOMAIN routing_tables[n] :
      Cardinality(Offering(n, d)) >= 2 =>
        \A m \in Offering(n, d) : routing_tables[n][d][2] <= m

Elements(seq) == {seq[i] : i \in 1..Len(seq)}

\* C6: the next-hop chase of simulate_messages from a source to another node
\* it has an entry for takes at most (number of nodes - 1) steps, the nodes
\* gathered in path being one per step, and never visits a node twice.
C6_ChaseBounded ==
  (dvrPc = "chase" /\ msg[1] # msg[2]) =>
    /\ Len(path) <= Cardinality(KeySet(topology)) - 1
    /\ Cardinality(Elements(path)) = Len(path)

\* What the claim asks of the line written for a message (s, d) whose
\* destination has an entry at cost c with next hop h.
GoodLine(line, topo, s, d, c, h) ==
  /\ ~line.infinite
  /\ line.cost = c
  /\ ~line.unreachable
  /\ line.hops # <<>>
  /\ line.hops[1] = s
  /\ d \notin Elements(line.hops)
  /\ IsPath(topo, Append(line.hops, d))
  /\ h = d => line.hops = <<s>>

\* C7: for a message with source # destination whose destination has an
\* entry in the source's table, both engines report the table cost and the
\* hops from the source along the route without the destination (exactly
\* <<source>> on a direct link), and never the "unreachable" sentinel.
C7_HopsReported ==
  /\ (dvrPc = "forward" /\ msg # <<>> /\ dvrOut.written
      /\ msg[1] # msg[2] /\ msg[2] \in DOMAIN routing_tables[msg[1]]) =>
       GoodLine(dvrOut, topology, msg[1], msg[2],
                routing_tables[msg[1]][msg[2]][1], routing_tables[msg[1]][msg[2]][2])
  /\ (lsrPc = "forward" /\ msg # <<>> /\ lsrOut.written /\ msg[1] # msg[2]
      /\ msg[1] \in DOMAIN lsr_tables /\ msg[2] \in DOMAIN lsr_tables[msg[1]]) =>
       GoodLine(lsrOut, network, msg[1], msg[2],
                lsr_tables[msg[1]][msg[2]][2], lsr_tables[msg[1]][msg[2]][1])

\* The last change removed a link that was there, and X, one of its ends, has
\* no link left in topo.
Isolated(topo, X) ==
  /\ lastChange # <<>>
  /\ lastChange[3] = Removal
  /\ lastChange[4]
  /\ X \in {lastChange[1], lastChange[2]}
  /\ Has(topo, X)
  /\ Neighbours(topo, X) = {}

\* C8: after a change removed the only link of node X, no other node's
\* recomputed table has an entry for X, the table of X has no entry for any
\* other node, and a message between X and any other node of the topology is
\* reported with cost infinite and hops unreachable, in both engines.
C8_Unreachability ==
  /\ DvrComputed =>
       \A X \in KeySet(topology) : Isolated(topology, X) =>
         \A y \in KeySet(topology) \ {X} :
           /\ X \notin DOMAIN routing_tables[y]
           /\ y \notin DOMAIN routing_tables[X]
           /\ DvrLookup(routing_tables, X, y) = "unreachable"
           /\ DvrLookup(routing_tables, y, X) = "unreachable"
  /\ LsrComputed =>
       \A X \in KeySet(network) : Isolated(network, X) =>
         \A y \in KeySet(network) \ {X} :
           /\ X \notin DOMAIN lsr_tables[y]
           /\ y \notin DOMAIN lsr_tables[X]
           /\ lsr_forward(lsr_tables, X, y) = UnreachableLine
           /\ lsr_forward(lsr_tables, y, X) = UnreachableLine

\* C8 witness: the removal cut node 3 off while nodes 1 and 2 stay linked,
\* and both engines have recomputed.
C8_Witness ==
  /\ DvrComputed /\ LsrComputed
  /\ Isolated(topology, 3) /\ Isolated(network, 3)
  /\ HasLink(topology, 1, 2)
  /\ 2 \in DOMAIN routing_tables[1]
  /\ DOMAIN routing_tables[3] = {3}
  /\ DOMAIN lsr_tables[3] = {3}

\* C9: a message whose source or destination never appeared in the topology
\* is reported as unreachable by both engines, and no exception is raised.
C9_UnknownNodeUnreachable ==
  [][\A s \in Nodes, d \in Nodes :
       (/\ NextMessage(s, d)
        /\ dvrPc = "forward"
        /\ (s \notin KeySet(network) \/ d \notin KeySet(network))) =>
         /\ dvrPc' # "KeyError"
         /\ dvrOut' = UnreachableLine
         /\ lsrPc' # "KeyError"
         /\ lsrOut' = UnreachableLine]_vars

\* C10: a change (a, b, c) with c # -999 sets the cost of a-b to c in both
\* directions in both engines' topologies, creating a and b when unseen, so
\* that both are keys of the recomputed tables.
C10_ChangeSetsLink ==
  [][\A r \in ChangeRecords :
       (Change(r) /\ r[3] # Removal /\ dvrPc = "change") =>
         /\ dvrPc' # "KeyError"
         /\ HasLink(topology', r[1], r[2]) /\ LinkCost(topology', r[1], r[2]) = r[3]
         /\ HasLink(topology', r[2], r[1]) /\ LinkCost(topology', r[2], r[1]) = r[3]
         /\ {r[1], r[2]} \subseteq DOMAIN routing_tables'
         /\ lsrPc' # "KeyError"
         /\ HasLink(network', r[1], r[2]) /\ LinkCost(network', r[1], r[2]) = r[3]
         /\ HasLink(network', r[2], r[1]) /\ LinkCost(network', r[2], r[1]) = r[3]
         /\ {r[1], r[2]} \subseteq DOMAIN lsr_tables']_vars

\* C11: a removal (a, b, -999) of a link that is not there, whether a and b
\* are nodes or not, raises no error and leaves the topology of each engine
\* as it was (so a second removal of the same link changes nothing either).
C11_RemovalOfMissingLink ==
  [][\A r \in ChangeRecords :
       (/\ Change(r)
        /\ dvrPc = "change"
        /\ r[3] = Removal
        /\ ~HasLink(topology, r[1], r[2])
        /\ ~HasLink(network, r[1], r[2])) =>
         /\ dvrPc' # "KeyError"
         /\ topology' = topology
         /\ lsrPc' # "KeyError"
         /\ network' = network]_vars

\* The links of topo go both ways at one cost, which is never the sentinel.
Symmetric(topo) ==
  \A a \in KeySet(topo) : \A b \in Neighbours(topo, a) :
    /\ HasLink(topo, b, a)
    /\ LinkCost(topo, b, a) = LinkCost(topo, a, b)
    /\ LinkCost(topo, a, b) # Removal

\* C12: in every state, after the topology file and after any sequence of
\* changes, cost(a, b) is defined exactly when cost(b, a) is, both are equal,
\* and -999 is never stored as a cost, in the topology of each engine.
C12_TopologySymmetric ==
  Symmetric(topology) /\ Symmetric(network)

\* C12 witness: the last change (2, 1, c), given against the order of the
\* ids, re-set the cost of an existing link while node 3 has a link too.
C12_Witness ==
  /\ DvrComputed /\ LsrComputed
  /\ lastChange # <<>>
  /\ lastChange[1] = 2 /\ lastChange[2] = 1
  /\ lastChange[3] = MaxCost
  /\ lastChange[4]
  /\ LinkCost(topology, 1, 2) = MaxCost /\ LinkCost(topology, 2, 1) = MaxCost
  /\ LinkCost(network, 1, 2) = MaxCost /\ LinkCost(network, 2, 1) = MaxCost
  /\ Has(topology, 3) /\ Neighbours(topology, 3) # {}

\* The step is one from the changes file that records r in lastChange.
Recorded(r) ==
  /\ lsrPc = "change"
  /\ lastChange' # <<>>
  /\ r = <<lastChange'[1], lastChange'[2], lastChange'[3]>>

\* The change record r leaves the links of topo as they are: it removes a
\* link that is not there, or sets a link to the cost it has.
LeavesLinks(topo, r) ==
  IF r[3] = Removal THEN ~HasLink(topo, r[1], r[2])
  ELSE HasLink(topo, r[1], r[2]) /\ LinkCost(topo, r[1], r[2]) = r[3]

\* C13: when a change leaves the links as they are and the tables are
\* computed again, each engine's new tables are the tables it held before the
\* change, next hops included.  (The link-state tables are rebuilt within the
\* step; the distance-vector tables are the ones the sweeps started by the
\* step end in.)
C13_RecomputeIdempotent ==
  [][\A r \in ChangeRecords :
       (Recorded(r) /\ LeavesLinks(network, r) /\ Change(r)) =>
         /\ lsrPc' = "forward" => lsr_tables' = lsr_tables
         /\ (dvrPc = "change" /\ dvrPc' = "converge") =>
              dvr_convergence(routing_tables', topology') = routing_tables]_vars

\* C13 witness: both engines have computed again after the removal of the
\* link 1-3, which was not there, in a topology where 1 reaches 3 through 2.
C13_Witness ==
  /\ DvrComputed /\ LsrComputed
  /\ lastChange = <<1, 3, Removal, FALSE>>
  /\ 3 \in DOMAIN routing_tables[1] /\ routing_tables[1][3][2] = 2
  /\ 3 \in DOMAIN lsr_tables[1] /\ lsr_tables[1][3][1] = 2

\* The entries of a distance-vector and of a link-state table with their
\* costs, as triples (node, destination, cost).
DvrCosts(rt) ==
  UNION {{<<n, d, rt[n][d][1]>> : d \in DOMAIN rt[n]} : n \in DOMAIN rt}
LsrCosts(tables) ==
  UNION {{<<n, d, tables[n][d][2]>> : d \in DOMAIN tables[n]} : n \in DOMAIN tables}

\* C14: when a change (a, b, w) to an existing link of cost w0 is followed by
\* the change (a, b, w0) and the tables are computed again, the entries
\* present and their costs are those of the tables held before the first
\* change, in each engine.  The first change is the step taken; the second
\* is applied to the topology the step leaves.
C14_Reversible ==
  [][\A r \in ChangeRecords :
       (Recorded(r) /\ HasLink(network, r[1], r[2]) /\ Change(r)) =>
         LET w0 == LinkCost(network, r[1], r[2])
         IN /\ lsrPc' = "forward" =>
                 \A n2 \in {LsrApplyChange(network', r[1], r[2], w0)} :
                 \A again \in {build_routing_tables(n2)} :
                   LsrCosts(again) = LsrCosts(lsr_tables)
            /\ (dvrPc = "change" /\ dvrPc' = "converge") =>
                 \A t2 \in {DvrApplyChange(topology', r[1], r[2], w0)} :
                 \A again \in {dvr_convergence(InitialTables(t2), t2)} :
                   DvrCosts(again) = DvrCosts(routing_tables)]_vars

\* C14 witness: the removal of the link 1-2 has cut node 2 off from node 1,
\* which still reaches node 3: the tables differ from those before it.
C14_Witness ==
  /\ DvrComputed /\ LsrComputed
  /\ lastChange = <<1, 2, Removal, TRUE>>
  /\ 2 \notin DOMAIN routing_tables[1] /\ 3 \in DOMAIN routing_tables[1]
  /\ 2 \notin DOMAIN lsr_tables[1] /\ 3 \in DOMAIN lsr_tables[1]

\* C15: the tables are a function of the nodes and link costs alone: when an
\* existing link is removed and then added again at its cost, the tables
\* computed for the restored topology are the tables held before the removal,
\* next hops (and link-state paths) included, in each engine.  Stated for
\* topologies of positive costs.
C15_FunctionOfTopology ==
  [][\A r \in ChangeRecords :
       (/\ Recorded(r)
        /\ r[3] = Removal
        /\ HasLink(network, r[1], r[2])
        /\ PositiveCosts(network)
        /\ Change(r)) =>
         LET w0 == LinkCost(network, r[1], r[2])
         IN /\ lsrPc' = "forward" =>
                 \A n2 \in {LsrApplyChange(network', r[1], r[2], w0)} :
                 \A again \in {build_routing_tables(n2)} :
                   again = lsr_tables
            /\ (dvrPc = "change" /\ dvrPc' = "converge") =>
                 \A t2 \in {DvrApplyChange(topology', r[1], r[2], w0)} :
                 \A again \in {dvr_convergence(InitialTables(t2), t2)} :
                   again = routing_tables]_vars

\* A sweep in which every node is relaxed against the tables as they stand at
\* the start of the sweep: the row of node n is what update_routing_table
\* makes of it when it reads the snapshot rt.
SnapshotSweep(rt, topo) ==
  [n \in DOMAIN rt |-> update_routing_table(rt, n, Get(topo, n)).tables[n]]

\* C16 as stated: the tables after a sweep are the result of relaxing all
\* nodes against the tables at the start of the sweep, which the loop keeps
\* in previous_routing_tables.  Stated for topologies of positive costs.
C16_SweepReadsSnapshot ==
  (dvrPc = "converge" /\ sweeps >= 1 /\ PositiveCosts(topology)) =>
    routing_tables = SnapshotSweep(previous_routing_tables, topology)

\* C16 amended: a node reads the entries of its neighbours as they stand when
\* it is relaxed, those written earlier in the same sweep included, so the
\* tables after a sweep hold every entry of the snapshot sweep at a cost that
\* is no higher; the snapshot only decides whether the loop goes on, which it
\* does exactly when the sweep has changed the tables.
C16_SweepInPlace ==
  (dvrPc = "converge" /\ sweeps >= 1) =>
    /\ changed <=> (routing_tables # previous_routing_tables)
    /\ \A snap \in {SnapshotSweep(previous_routing_tables, topology)} :
         \A n \in DOMAIN snap : \A d \in DOMAIN snap[n] :
           /\ d \in DOMAIN routing_tables[n]
           /\ routing_tables[n][d][1] <= snap[n][d][1]

\* C16 witness: in the first sweep over the line 1 - 2 - 3, read in this
\* order, node 3 learns the route to node 1 that node 2 has just written,
\* which a sweep against the snapshot does not give it.
C16_Witness ==
  /\ dvrPc = "converge" /\ sweeps = 1
  /\ KeySet(topology) = {1, 2, 3}
  /\ ~HasLink(topology, 1, 3)
  /\ 1 \in DOMAIN routing_tables[3]
  /\ 1 \notin DOMAIN SnapshotSweep(previous_routing_tables, topology)[3]

\* C17: when several paths of the least total cost lead from s to d, the
\* link-state entry of s for d goes through the smallest of their first
\* nodes after s: its next hop is no larger than the second node of any
\* shortest path, whatever the order of the links.  Stated for topologies of
\* positive costs.
C17_LsSmallestNextHop ==
  (LsrComputed /\ PositiveCosts(network)) =>
    \A p \in SimpleSeqs :
      (/\ Len(p) >= 2
       /\ IsPath(network, p)
       /\ PathCost(network, p) = lsr_tables[p[1]][p[Len(p)]][2]) =>
        lsr_tables[p[1]][p[Len(p)]][1] <= p[2]

\* The line reports cost 0 and the hop sequence <<s>>.
SelfLine(line, s) ==
  /\ ~line.infinite
  /\ line.cost = 0
  /\ ~line.unreachable
  /\ line.hops = <<s>>

\* C18: for a message whose source is its destination, a node of the
\* topology, each engine reports cost 0 and the hops <<source>>, neither an
\* empty hop list nor "unreachable".
C18_MessageToSelf ==
  (msg # <<>> /\ msg[1] = msg[2]) =>
    /\ (dvrPc = "forward" /\ dvrOut.written /\ Has(topology, msg[1])) =>
         SelfLine(dvrOut, msg[1])
    /\ (lsrPc = "forward" /\ lsrOut.written /\ Has(network, msg[1])) =>
         SelfLine(lsrOut, msg[1])

\* C19: with strictly positive link costs, a call of dvr_convergence runs
\* at most as many sweeps as the topology has nodes, the last sweep, which
\* changes nothing, included.
C19_SweepsAtMostNodes ==
  (dvrPc # "KeyError" /\ PositiveCosts(topology)) =>
    sweeps <= Cardinality(KeySet(topology))

\* C19, amended: a call of dvr_convergence always runs one sweep, so the
\* bound is the number of nodes for a topology that has nodes and one for
\* the empty topology.
C19_SweepsAtMostNodesOrOne ==
  (dvrPc # "KeyError" /\ PositiveCosts(topology)) =>
    \/ sweeps <= Cardinality(KeySet(topology))
    \/ KeySet(topology) = {} /\ sweeps = 1

\* A chain of three nodes, read in an order that takes all three sweeps.
C19_Witness ==
  /\ DvrComputed
  /\ PositiveCosts(topology)
  /\ Cardinality(KeySet(topology)) = NumNodes
  /\ sweeps = NumNodes
  /\ lastChange = <<>>

\* The entry of n for d names a neighbour of n that has an entry for d, and
\* its cost is the link to that neighbour plus the neighbour's cost.
EntryConsistent(rt, topo, n, d) ==
  LET c == rt[n][d][1]
      m == rt[n][d][2]
  IN /\ m \in Neighbours(topo, n)
     /\ m \in DOMAIN rt
     /\ d \in DOMAIN rt[m]
     /\ c = LinkCost(topo, n, m) + rt[m][d][1]

\* C20: in the converged distance-vector tables every entry of a node n for
\* another node d is consistent with the entry of its next hop, and so the
\* cost written for a message from s to another node d is the sum of the
\* link costs along the nodes the chase went through, d at the end.
C20_EntriesConsistent ==
  /\ DvrComputed =>
       \A n \in DOMAIN routing_tables : \A d \in DOMAIN routing_tables[n] :
         d # n => EntryConsistent(routing_tables, topology, n, d)
  /\ (/\ dvrPc = "forward" /\ msg # <<>> /\ msg[1] # msg[2]
      /\ dvrOut.written /\ ~dvrOut.infinite) =>
       /\ path # <<>> /\ path[1] = msg[1]
       /\ IsPath(topology, Append(path, msg[2]))
       /\ dvrOut.cost = PathCost(topology, Append(path, msg[2]))

\* A message from 1 to 3 went through 2 on two links of cost 1, the direct
\* link from 1 to 3 being dearer.
C20_Witness ==
  /\ dvrPc = "forward" /\ msg = <<1, 3>> /\ dvrOut.written
  /\ path = <<1, 2>>
  /\ dvrOut.cost = 2
  /\ HasLink(topology, 1, 3) /\ LinkCost(topology, 1, 3) = MaxCost

\* The states the while loop of dijkstra goes through with a queue that is
\* not empty, from st on.
RECURSIVE LoopStates(_, _)
LoopStates(net, st) ==
  IF st.pq = {} THEN {}
  ELSE {st} \cup LoopStates(net, DijkstraIteration(net, st))

\* The states of the run of dijkstra from start_id in which the tuple about
\* to be popped is stale.
StalePops(net, start_id) ==
  {st \in LoopStates(net, DijkstraStart(net, start_id)) :
     Stale(st, HeapMin(st.pq))}

\* The entry of s for d is a route: its path followed by d starts at s,
\* repeats no node, runs over links of net that sum to its cost, and has
\* its next hop in second place.
IsRoute(net, s, d, entry) ==
  LET walk == Append(entry[3], d)
  IN /\ walk \in SimpleSeqs
     /\ Ends(walk, s, d)
     /\ IsPath(net, walk)
     /\ PathCost(net, walk) = entry[2]
     /\ walk[2] = entry[1]

\* C21: every entry build_routing_tables stores for a node s and another
\* node d is a route from s to d in the current topology, and an iteration
\* of dijkstra that pops a stale tuple changes no distance and no path.
C21_EntriesAreRoutes ==
  LsrComputed =>
    /\ \A s \in DOMAIN lsr_tables : \A d \in DOMAIN lsr_tables[s] \ {s} :
         IsRoute(network, s, d, lsr_tables[s][d])
    /\ \A s \in KeySet(network) : \A st \in StalePops(network, s) :
         \A after \in {DijkstraIteration(network, st)} :
           /\ after.distances = st.distances
           /\ after.previous_nodes = st.previous_nodes
           /\ after.full_paths = st.full_paths
           /\ after.pq \subseteq st.pq

\* The direct link from 1 to 2 is dearer than the way through 3: the entry
\* of 1 for 2 goes through 3, and the tuple pushed for the direct link is
\* popped stale.
C21_Witness ==
  /\ LsrComputed
  /\ 1 \in DOMAIN lsr_tables /\ 2 \in DOMAIN lsr_tables[1]
  /\ lsr_tables[1][2] = <<3, 2, <<1, 3>>>>
  /\ HasLink(network, 1, 2) /\ LinkCost(network, 1, 2) = MaxCost
  /\ StalePops(network, 1) # {}
====
